---- MODULE Spec2Model ----
(***************************************************************************)
(* Query-understanding and retrieval-filtering engine of the event Q&A     *)
(* system (src/rag_chain.py, src/vector_store.py, src/config.py).          *)
(*                                                                         *)
(* A query is a sequence of words (tokens) joined by single spaces.  Each  *)
(* token stands for a fixed piece of Korean text, listed below; the        *)
(* regular expressions of the parsers are evaluated on that text.          *)
(*                                                                         *)
(*   Y0000 "0000년"   Y2024 "2024년"   Y2025 "2025년"   Y2026 "2026년"     *)
(*   M0 "0월"  M3 "3월"  M5 "5월"  M12 "12월"  M13 "13월"                  *)
(*   TILDE "~"        FROM "부터"                                          *)
(*   H1 "상반기"  H2 "하반기"  Q1 "1분기"  Q2 "2분기"  Q3 "3분기"  Q4 "4분기"  *)
(*   UPCOMING "다가오는"                                                   *)
(*   WORKSHOP "워크숍"   SEMINAR "세미나"   EXCEPT "제외"                  *)
(*   COEX "코엑스"       YANGJAE "양재 aT센터"                             *)
(*   WEEKEND "주말"      WEEKDAY "평일"                                    *)
(*   REG "등록"  POSSIBLE "가능"  DEADLINE "마감"  IMMINENT "임박"         *)
(*   CLOSING "마감 임박"   BEFORE "전"                                     *)
(*   ONEDAY "하루"       MULTIDAY "며칠"                                   *)
(*   EVENT "행사"                                                          *)
(***************************************************************************)
EXTENDS Integers, Sequences, FiniteSets, TLC

VARIABLES
    clock,          \* the calendar date datetime.now() returns, as YYYYMMDD
    ticks,          \* midnights passed since the start
    store,          \* the "documents" collection, in the backend's retrieval order
    retrieval_k,    \* config.RETRIEVAL_K
    pc,             \* position of the running call
    query,          \* the message
    today_318,      \* today_int read at rag_chain.py:318-319  (<<>> = not read)
    today_364,      \* today_int read at rag_chain.py:364
    now_372,        \* the date read at rag_chain.py:372
    conditions,     \* build_chroma_filters' condition list
    location,       \* parse_location_from_query's result (<<>> = None)
    calls,          \* retrieval calls issued by chat()
    retrieved,      \* what get_all_by_filter returned
    retained,       \* nodes after filter_nodes_by_location
    nodes,          \* nodes after the optional sort: the ranked list
    total_count,    \* chat(): total_count
    display_count,  \* chat(): display_count
    context,        \* entries of format_nodes_as_context, in order
    llm_calls,      \* number of llm.complete calls
    result,         \* chat()'s return value ("" = none yet)
    filter_desc,    \* build_filter_description's entries (<<>> = not built)
    parsed,         \* what the parsers returned for the query (<<>> = not called)
    chroma_client,  \* vector_store.py: _chroma_client (<<>> = None, else <<id>>)
    vector_store,   \* _vector_store: <<id of the client it was built from>>
    index,          \* _index: <<id of the client its vector store was built from>>
    made,           \* number of clients created so far
    th              \* per thread: position in vector_store.py and local values

vars == <<clock, ticks, store, retrieval_k, pc, query, today_318, today_364,
          now_372, conditions, location, calls, retrieved, retained, nodes,
          total_count, display_count, context, llm_calls, result, filter_desc,
          parsed, chroma_client, vector_store, index, made, th>>

\* the module state of vector_store.py and the threads that use it
storevars == <<chroma_client, vector_store, index, made, th>>

\* the state of one chat() call
chatvars == <<clock, ticks, store, retrieval_k, pc, query, today_318, today_364,
              now_372, conditions, location, calls, retrieved, retained, nodes,
              total_count, display_count, context, llm_calls, result, filter_desc,
              parsed>>

-----------------------------------------------------------------------------
(* Bounds of the model *)

MaxTicks == 1
MaxQueryLen == 2
MaxFilterQueryLen == 3
MaxStore == 2
MaxK == 1
MaxSpan == 10
MaxDescQueryLen == 2
MaxDateQueryLen == 4
NumThreads == 2
MaxClients == 2

-----------------------------------------------------------------------------
(* Python values *)

None == <<>>
Some(v) == <<v>>

\* Python truthiness of an int | None value: None and 0 are false
Truthy(opt) == opt # None /\ opt[1] # 0

Min(a, b) == IF a <= b THEN a ELSE b
Max(a, b) == IF a >= b THEN a ELSE b

RECURSIVE SeqMax(_)
SeqMax(s) == IF Len(s) = 1 THEN s[1] ELSE Max(s[1], SeqMax(Tail(s)))

\* list(range(a, b + 1))
RangeList(a, b) == [i \in 1..(b - a + 1) |-> a + i - 1]

-----------------------------------------------------------------------------
(* The calendar: datetime, timedelta and strftime("%Y%m%d") *)

IsLeap(y) == (y % 4 = 0 /\ y % 100 # 0) \/ y % 400 = 0

DaysInMonth(y, m) ==
    CASE m \in {1, 3, 5, 7, 8, 10, 12} -> 31
      [] m \in {4, 6, 9, 11} -> 30
      [] OTHER -> IF IsLeap(y) THEN 29 ELSE 28

YearOf(d) == d \div 10000
MonthOf(d) == (d \div 100) % 100
DayOf(d) == d % 100

\* the date after d
NextDay(d) ==
    IF DayOf(d) < DaysInMonth(YearOf(d), MonthOf(d)) THEN d + 1
    ELSE IF MonthOf(d) < 12 THEN YearOf(d) * 10000 + (MonthOf(d) + 1) * 100 + 1
    ELSE (YearOf(d) + 1) * 10000 + 101

\* d + timedelta(days=n)
RECURSIVE AddDays(_, _)
AddDays(d, n) == IF n = 0 THEN d ELSE AddDays(NextDay(d), n - 1)

-----------------------------------------------------------------------------
(* Regular expressions on the text of a query *)

\* re.search of a pattern that is an alternation of literals: S is the set
\* of tokens whose text contains one of the literals
Search(q, S) == \E i \in 1..Len(q) : q[i] \in S

\* re.search of "A.*B": a token holding A, then (later in the text) one holding B
SearchThen(q, A, B) == \E i, j \in 1..Len(q) : i < j /\ q[i] \in A /\ q[j] \in B

\* re.search of "A.*B.*C"
SearchThen3(q, A, B, C) ==
    \E i, j, k \in 1..Len(q) : i < j /\ j < k /\ q[i] \in A /\ q[j] \in B /\ q[k] \in C

\* tokens matching (\d{4})년, and int(group(1))
YearTokens == {"Y0000", "Y2024", "Y2025", "Y2026"}
YearVal(t) ==
    CASE t = "Y0000" -> 0
      [] t = "Y2024" -> 2024
      [] t = "Y2025" -> 2025
      [] t = "Y2026" -> 2026

\* tokens matching (\d{1,2})월, and int(group(1))
MonthTokens == {"M0", "M3", "M5", "M12", "M13"}
MonthVal(t) ==
    CASE t = "M0" -> 0
      [] t = "M3" -> 3
      [] t = "M5" -> 5
      [] t = "M12" -> 12
      [] t = "M13" -> 13

\* the single characters the class [~\-부터] accepts: "부터" is two characters,
\* so the token FROM is not accepted between two months
RangeSeparators == {"TILDE"}

\* index of the first token of q in S (0 when there is none)
FirstIn(q, S) ==
    IF Search(q, S) THEN CHOOSE i \in 1..Len(q) : q[i] \in S /\ \A j \in 1..(i - 1) : q[j] \notin S
    ELSE 0

\* where (\d{1,2})월\s*[~\-부터]\s*(\d{1,2})월 matches
IsRangeAt(q, i) ==
    /\ i + 2 <= Len(q)
    /\ q[i] \in MonthTokens
    /\ q[i + 1] \in RangeSeparators
    /\ q[i + 2] \in MonthTokens

\* start of the leftmost match, the one re.search returns (0 when there is none)
FirstRange(q) ==
    IF \E i \in 1..Len(q) : IsRangeAt(q, i)
    THEN CHOOSE i \in 1..Len(q) : IsRangeAt(q, i) /\ \A j \in 1..(i - 1) : ~IsRangeAt(q, j)
    ELSE 0

-----------------------------------------------------------------------------
(* Temporal parser *)

\* month_range after the half-year / quarter keywords (lines 123-135)
PeriodRange(q) ==
    IF Search(q, {"H1"}) THEN RangeList(1, 6)
    ELSE IF Search(q, {"H2"}) THEN RangeList(7, 12)
    ELSE IF Search(q, {"Q1"}) THEN RangeList(1, 3)
    ELSE IF Search(q, {"Q2"}) THEN RangeList(4, 6)
    ELSE IF Search(q, {"Q3"}) THEN RangeList(7, 9)
    ELSE IF Search(q, {"Q4"}) THEN RangeList(10, 12)
    ELSE None

\* month_range after the explicit range (lines 137-143); None = no range
MonthRangeOf(q) ==
    LET r == FirstRange(q)
        start_month == MonthVal(q[r])
        end_month == MonthVal(q[r + 2])
    IN  IF r # 0 /\ 1 <= start_month /\ start_month <= 12
                 /\ 1 <= end_month /\ end_month <= 12 /\ start_month <= end_month
        THEN RangeList(start_month, end_month)
        ELSE PeriodRange(q)

parse_date_from_query(q) ==
    LET y == FirstIn(q, YearTokens)
        m == FirstIn(q, MonthTokens)
        month_range == MonthRangeOf(q)
    IN  [year |-> IF y # 0 THEN Some(YearVal(q[y])) ELSE None,
         month |-> IF month_range = None /\ m # 0 THEN Some(MonthVal(q[m])) ELSE None,
         month_range |-> month_range]

parse_weekend_filter(q) ==
    IF Search(q, {"WEEKEND"}) THEN Some(TRUE)
    ELSE IF Search(q, {"WEEKDAY"}) THEN Some(FALSE)
    ELSE None

is_time_based_query(q) == Search(q, {"UPCOMING"})

-----------------------------------------------------------------------------
(* Categorical parser *)

parse_category_from_query(q) ==
    IF Search(q, {"WORKSHOP"}) THEN "workshop"
    ELSE IF Search(q, {"SEMINAR"}) THEN "seminar"
    ELSE ""

\* the canonical location strings, as sequences of characters
KwYangjae == <<"yangjae", " ", "aT", "center">>
KwCoex == <<"coex">>

parse_location_from_query(q) ==
    IF Search(q, {"YANGJAE"}) THEN KwYangjae
    ELSE IF Search(q, {"COEX"}) THEN KwCoex
    ELSE None

parse_registration_filter(q) ==
    IF SearchThen(q, {"REG"}, {"POSSIBLE"}) THEN "available"
    ELSE IF \/ SearchThen(q, {"REG"}, {"DEADLINE", "IMMINENT", "CLOSING"})
            \/ SearchThen(q, {"DEADLINE", "CLOSING"}, {"IMMINENT", "CLOSING"})
            \/ Search(q, {"CLOSING"})
         THEN "closing_soon"
    ELSE IF SearchThen(q, {"REG"}, {"BEFORE"}) THEN "upcoming"
    ELSE IF \/ SearchThen3(q, {"REG"}, {"DEADLINE", "CLOSING"}, {"EXCEPT"})
            \/ SearchThen(q, {"DEADLINE", "CLOSING"}, {"EXCEPT"})
         THEN "exclude_closed"
    ELSE ""

parse_duration_filter(q) ==
    IF Search(q, {"MULTIDAY"}) THEN "multi_day"
    ELSE IF Search(q, {"ONEDAY"}) THEN "single_day"
    ELSE ""

\* "제외" holds both the literal 제외 and the literal 외
parse_exclusion_filter(q) ==
    IF SearchThen(q, {"WORKSHOP"}, {"EXCEPT"}) THEN "workshop"
    ELSE IF SearchThen(q, {"SEMINAR"}, {"EXCEPT"}) THEN "seminar"
    ELSE ""

-----------------------------------------------------------------------------
(* Filter predicate builder: build_chroma_filters *)

Cond(key, op, val) == [key |-> key, op |-> op, val |-> val]

\* a past-period test that counts day 28 itself as past
IsPastDate_Inclusive(q, today_int) ==
    LET d == parse_date_from_query(q)
    IN  IF Truthy(d.year) /\ Truthy(d.month)
        THEN d.year[1] * 10000 + d.month[1] * 100 + 28 <= today_int
        ELSE IF Truthy(d.year) /\ d.month_range # None
        THEN d.year[1] * 10000 + SeqMax(d.month_range) * 100 + 28 <= today_int
        ELSE IF Truthy(d.year)
        THEN d.year[1] < YearOf(today_int)
        ELSE FALSE

\* is_past_date (lines 321-332); f"{year}{month:02d}28" is year*10000 + month*100 + 28
IsPastDate(q, today_int) ==
    LET d == parse_date_from_query(q)
    IN  IF Truthy(d.year) /\ Truthy(d.month)
        THEN d.year[1] * 10000 + d.month[1] * 100 + 28 < today_int
        ELSE IF Truthy(d.year) /\ d.month_range # None
        THEN d.year[1] * 10000 + SeqMax(d.month_range) * 100 + 28 < today_int
        ELSE IF Truthy(d.year)
        THEN d.year[1] < YearOf(today_int)
        ELSE FALSE

\* a builder that never adds the lower bound
TimeConds_Never(q, today_int) == <<>>

\* lines 316-336, with today_int the date read at line 318
TimeConds(q, today_int) ==
    IF is_time_based_query(q) /\ ~IsPastDate(q, today_int)
    THEN <<Cond("start_date_int", "$gte", today_int)>>
    ELSE <<>>

\* a builder that also turns the location keyword into a condition
StaticConds_WithLocation(q) ==
    LET d == parse_date_from_query(q)
        is_weekend == parse_weekend_filter(q)
        category == parse_category_from_query(q)
        exclusion == parse_exclusion_filter(q)
        loc == parse_location_from_query(q)
    IN  (IF Truthy(d.year) THEN <<Cond("year", "$eq", d.year[1])>> ELSE <<>>)
        \o (IF d.month_range # None THEN <<Cond("month", "$in", d.month_range)>>
            ELSE IF Truthy(d.month) THEN <<Cond("month", "$eq", d.month[1])>>
            ELSE <<>>)
        \o (IF is_weekend # None THEN <<Cond("is_weekend", "$eq", is_weekend[1])>> ELSE <<>>)
        \o (IF category # "" THEN <<Cond("category", "$eq", category)>> ELSE <<>>)
        \o (IF exclusion # "" THEN <<Cond("category", "$ne", exclusion)>> ELSE <<>>)
        \o (IF loc # None THEN <<Cond("location", "$eq", loc)>> ELSE <<>>)

\* lines 338-361
StaticConds(q) ==
    LET d == parse_date_from_query(q)
        is_weekend == parse_weekend_filter(q)
        category == parse_category_from_query(q)
        exclusion == parse_exclusion_filter(q)
    IN  (IF Truthy(d.year) THEN <<Cond("year", "$eq", d.year[1])>> ELSE <<>>)
        \o (IF d.month_range # None THEN <<Cond("month", "$in", d.month_range)>>
            ELSE IF Truthy(d.month) THEN <<Cond("month", "$eq", d.month[1])>>
            ELSE <<>>)
        \o (IF is_weekend # None THEN <<Cond("is_weekend", "$eq", is_weekend[1])>> ELSE <<>>)
        \o (IF category # "" THEN <<Cond("category", "$eq", category)>> ELSE <<>>)
        \o (IF exclusion # "" THEN <<Cond("category", "$ne", exclusion)>> ELSE <<>>)

\* lines 366-380, with today_int the date read at line 364 and week_later
\* computed from the date read at line 372
RegConds(reg_status, today_int, week_later) ==
    CASE reg_status = "available" ->
            <<Cond("reg_start_int", "$lte", today_int), Cond("reg_end_int", "$gte", today_int)>>
      [] reg_status = "closing_soon" ->
            <<Cond("reg_end_int", "$gte", today_int), Cond("reg_end_int", "$lte", week_later)>>
      [] reg_status = "upcoming" -> <<Cond("reg_start_int", "$gt", today_int)>>
      [] reg_status = "exclude_closed" -> <<Cond("reg_end_int", "$gte", today_int)>>
      [] OTHER -> <<>>

\* int((datetime.now() + timedelta(days=7)).strftime("%Y%m%d")), line 372
WeekLater(now) == AddDays(now, 7)

\* lines 383-387
DurationConds(q) ==
    LET duration == parse_duration_filter(q)
    IN  CASE duration = "multi_day" -> <<Cond("duration_days", "$gt", 1)>>
          [] duration = "single_day" -> <<Cond("duration_days", "$eq", 1)>>
          [] OTHER -> <<>>

-----------------------------------------------------------------------------
(* The exact-match store: collection.get(where=...) *)

RECURSIVE SeqHas(_, _)
SeqHas(s, v) == s # <<>> /\ (s[1] = v \/ SeqHas(Tail(s), v))

\* one condition on one record's metadata; a comparison with a key the
\* record does not carry is false ($ne: true)
Holds(md, c) ==
    IF c.key \notin DOMAIN md THEN c.op = "$ne"
    ELSE CASE c.op = "$eq" -> md[c.key] = c.val
           [] c.op = "$ne" -> md[c.key] # c.val
           [] c.op = "$gt" -> md[c.key] > c.val
           [] c.op = "$gte" -> md[c.key] >= c.val
           [] c.op = "$lte" -> md[c.key] <= c.val
           [] c.op = "$in" -> SeqHas(c.val, md[c.key])

\* the conjunction ({"$and": conditions}, or the single condition)
Matches(md, conds) == \A i \in 1..Len(conds) : Holds(md, conds[i])

\* a retrieval cut off after the first match, as a top-k search would
get_all_by_filter_Capped(filters, coll) ==
    LET all == IF filters # None THEN SelectSeq(coll, LAMBDA md : Matches(md, filters)) ELSE coll
    IN  SubSeq(all, 1, Min(1, Len(all)))

\* filters = None (or empty): every record
get_all_by_filter(filters, coll) ==
    IF filters # None THEN SelectSeq(coll, LAMBDA md : Matches(md, filters))
    ELSE coll

-----------------------------------------------------------------------------
(* Post-filter and ranker *)

\* Python's "sub in s" on strings
IsSubstring(sub, s) ==
    \E i \in 0..(Len(s) - Len(sub)) : SubSeq(s, i + 1, i + Len(sub)) = sub

\* metadata.get("location", "")
LocationOf(md) == IF "location" \in DOMAIN md THEN md.location ELSE <<>>

\* a filter that wants the location to begin with the keyword
filter_nodes_by_location_Prefix(ns, loc) ==
    IF loc = None THEN ns
    ELSE SelectSeq(ns, LAMBDA md : /\ Len(loc) <= Len(LocationOf(md))
                                   /\ SubSeq(LocationOf(md), 1, Len(loc)) = loc)

filter_nodes_by_location(ns, loc) ==
    IF loc = None THEN ns
    ELSE SelectSeq(ns, LAMBDA md : IsSubstring(loc, LocationOf(md)))

DateSentinel == 99999999

\* a sort key that puts a record without a date first
get_date_int_First(md) == IF "start_date_int" \in DOMAIN md THEN md.start_date_int ELSE 0

\* get_date_int
get_date_int(md) == IF "start_date_int" \in DOMAIN md THEN md.start_date_int ELSE DateSentinel

\* an insertion in front of the elements of equal key: a sort that is not stable
RECURSIVE InsertByDate_Unstable(_, _)
InsertByDate_Unstable(x, s) ==
    IF s = <<>> THEN <<x>>
    ELSE IF get_date_int(x) <= get_date_int(s[1]) THEN <<x>> \o s
    ELSE <<s[1]>> \o InsertByDate_Unstable(x, Tail(s))

\* insert x behind every element whose key is not larger: a stable insertion
RECURSIVE InsertByDate(_, _)
InsertByDate(x, s) ==
    IF s = <<>> THEN <<x>>
    ELSE IF get_date_int(x) < get_date_int(s[1]) THEN <<x>> \o s
    ELSE <<s[1]>> \o InsertByDate(x, Tail(s))

\* sorted(nodes, key=get_date_int), ascending as chat() calls it: stable
RECURSIVE SortFrom(_, _)
SortFrom(done, rest) ==
    IF rest = <<>> THEN done ELSE SortFrom(InsertByDate(rest[1], done), Tail(rest))

sort_nodes_by_date(ns) == SortFrom(<<>>, ns)

-----------------------------------------------------------------------------
(* Context assembler *)

Status(cls, days) == [cls |-> cls, days |-> days]

\* metadata.get(key) with Python truthiness: absent and 0 are false
GetInt(md, key) == IF key \in DOMAIN md THEN Some(md[key]) ELSE None

\* a classification that counts the opening day itself as not yet open
calculate_registration_status_LateOpen(md, today_int) ==
    LET reg_start == GetInt(md, "reg_start_int")
        reg_end == GetInt(md, "reg_end_int")
    IN  IF ~Truthy(reg_start) \/ ~Truthy(reg_end) THEN Status("", None)
        ELSE IF today_int <= reg_start[1] THEN Status("not_open", None)
        ELSE IF today_int <= reg_end[1] THEN Status("open", None)
        ELSE Status("closed", None)

\* lines 475-494; days_left is the difference of the days of the month, kept
\* only when reg_end and today lie in the same month of the same year
calculate_registration_status(md, today_int) ==
    LET reg_start == GetInt(md, "reg_start_int")
        reg_end == GetInt(md, "reg_end_int")
    IN  IF ~Truthy(reg_start) \/ ~Truthy(reg_end) THEN Status("", None)
        ELSE IF today_int < reg_start[1] THEN Status("not_open", None)
        ELSE IF today_int <= reg_end[1]
        THEN LET days_left == (reg_end[1] % 100) - (today_int % 100)
             IN  IF reg_end[1] \div 100 = today_int \div 100 /\ days_left <= 7
                 THEN Status("open", Some(days_left))
                 ELSE Status("open", None)
        ELSE Status("closed", None)

\* nodes[:max_nodes] under "if max_nodes:"
Truncate(ns, max_nodes) ==
    IF max_nodes = 0 THEN ns
    ELSE IF max_nodes > 0 THEN SubSeq(ns, 1, Min(max_nodes, Len(ns)))
    ELSE SubSeq(ns, 1, Max(Len(ns) + max_nodes, 0))

\* one numbered entry of the bundle; the status line is written only beside
\* an answer_template
Entry(i, md, today_int) ==
    [n |-> i,
     id |-> md.id,
     status |-> IF md.answer_template # "" THEN calculate_registration_status(md, today_int)
                ELSE Status("", None),
     today |-> today_int]

RECURSIVE SeqMin(_)
SeqMin(s) == IF Len(s) = 1 THEN s[1] ELSE Min(s[1], SeqMin(Tail(s)))

Desc(kind, val) == [kind |-> kind, val |-> val]

\* build_filter_description: the entries joined into "[적용된 필터: ...]",
\* in order; no entry at all is the empty string
build_filter_description(q) ==
    LET d == parse_date_from_query(q)
        is_weekend == parse_weekend_filter(q)
        category == parse_category_from_query(q)
        exclusion == parse_exclusion_filter(q)
        reg_status == parse_registration_filter(q)
        duration == parse_duration_filter(q)
        loc == parse_location_from_query(q)
    IN  (IF Truthy(d.year) THEN <<Desc("year", d.year[1])>> ELSE <<>>)
        \o (IF Truthy(d.month) THEN <<Desc("month", d.month[1])>> ELSE <<>>)
        \o (IF d.month_range # None
            THEN <<Desc("month_range", <<SeqMin(d.month_range), SeqMax(d.month_range)>>)>>
            ELSE <<>>)
        \o (IF is_weekend # None THEN <<Desc("is_weekend", is_weekend[1])>> ELSE <<>>)
        \o (IF category # "" THEN <<Desc("category", category)>> ELSE <<>>)
        \o (IF exclusion # "" THEN <<Desc("exclusion", exclusion)>> ELSE <<>>)
        \o (IF reg_status \in {"available", "closing_soon", "upcoming"}
            THEN <<Desc("registration", reg_status)>> ELSE <<>>)
        \o (IF duration # "" THEN <<Desc("duration", duration)>> ELSE <<>>)
        \o (IF loc # None THEN <<Desc("location", loc)>> ELSE <<>>)
        \o (IF is_time_based_query(q) THEN <<Desc("time_based", TRUE)>> ELSE <<>>)

-----------------------------------------------------------------------------
(* Inputs *)

\* Event records as the loaders build their metadata: keys whose value is
\* None are removed (document_loader.py:316, 386).  R3 is a JSONL record
\* without month and day, hence without start_date_int, whose location and
\* answer are empty.  R2 spells "AT" where the location keyword has "aT".
R1 == [id |-> 1, category |-> "workshop", location |-> <<"seoul", " ", "coex">>,
       year |-> 2026, month |-> 1, start_date_int |-> 20260105, is_weekend |-> FALSE,
       reg_start_int |-> 20251201, reg_end_int |-> 20251226, duration_days |-> 1,
       answer_template |-> "a"]
R2 == [id |-> 2, category |-> "seminar", location |-> <<"yangjae", " ", "AT", "center", " ", "coex">>,
       year |-> 2026, month |-> 1, start_date_int |-> 20260105, is_weekend |-> FALSE,
       reg_start_int |-> 20251220, reg_end_int |-> 20260102, duration_days |-> 2,
       answer_template |-> "a"]
R3 == [id |-> 3, category |-> "workshop", location |-> <<>>,
       year |-> 2024, answer_template |-> ""]
R4 == [id |-> 4, category |-> "workshop", location |-> <<"yangjae", " ", "aT", "center", " ", "coex">>,
       year |-> 2024, month |-> 5, start_date_int |-> 20240510, is_weekend |-> FALSE,
       reg_start_int |-> 20240401, reg_end_int |-> 20240430, duration_days |-> 1,
       answer_template |-> "a"]

RecordPool == <<R1, R2, R3, R4>>

\* Collections: up to MaxStore distinct records, in any retrieval order
Stores ==
    {[i \in 1..Len(ix) |-> RecordPool[ix[i]]] :
        ix \in {f \in UNION {[1..n -> 1..Len(RecordPool)] : n \in 0..MaxStore} :
                    \A a, b \in DOMAIN f : a # b => f[a] # f[b]}}

QueriesOver(alphabet, maxlen) == UNION {[1..n -> alphabet] : n \in 1..maxlen}

\* messages given to chat()
ChatTokens == {"EVENT", "COEX", "YANGJAE", "UPCOMING", "Y2024", "CLOSING"}
ChatQueries == QueriesOver(ChatTokens, MaxQueryLen)
ChatStartDates == {20251226}

\* messages given to build_chroma_filters alone
FilterTokens == {"UPCOMING", "Y0000", "Y2025", "M0", "M3", "M13", "H1",
                 "REG", "POSSIBLE", "DEADLINE", "IMMINENT", "BEFORE", "EXCEPT"}
FilterQueries == QueriesOver(FilterTokens, MaxFilterQueryLen)
FilterStartDates == {20240223, 20250327, 20250328, 20251226, 20260105}

\* inputs of calculate_registration_status alone: the dates of MaxSpan + 1
\* consecutive days across a year end, the value 0, and absence
StatusDays == {AddDays(20251224, i) : i \in 0..MaxSpan}
StatusValues == {0} \cup StatusDays
StatusTodays == {20251226, 20251231}
StatusRecords ==
    {[id |-> 9, answer_template |-> "a"]}
    \cup {[id |-> 9, answer_template |-> "a", reg_start_int |-> s] : s \in StatusValues}
    \cup {[id |-> 9, answer_template |-> "a", reg_end_int |-> e] : e \in StatusValues}
    \cup {[id |-> 9, answer_template |-> "a", reg_start_int |-> s, reg_end_int |-> e] :
                s \in StatusValues, e \in StatusValues}

\* messages given to build_chroma_filters and build_filter_description
DescTokens == {"Y0000", "Y2024", "M0", "M3", "H1", "WEEKEND", "WEEKDAY", "WORKSHOP",
               "SEMINAR", "EXCEPT", "REG", "POSSIBLE", "DEADLINE", "BEFORE", "CLOSING",
               "ONEDAY", "MULTIDAY", "COEX", "UPCOMING", "EVENT"}
DescQueries == QueriesOver(DescTokens, MaxDescQueryLen)
DescStartDates == {20251226}

\* messages given to parse_date_from_query and parse_registration_filter alone
DateTokens == {"H1", "Q4", "M0", "M3", "M5", "M13", "TILDE", "FROM"}
RegTokens == {"REG", "POSSIBLE", "DEADLINE", "IMMINENT", "BEFORE", "EXCEPT", "CLOSING", "EVENT"}
ParseQueries == QueriesOver(DateTokens, MaxDateQueryLen) \cup QueriesOver(RegTokens, MaxFilterQueryLen)

\* worker threads of the server, and a thread that is in no function of
\* vector_store.py
Threads == 1..NumThreads
IdleThread == [pc |-> "idle", goal |-> "", client |-> None, vs |-> None, ix |-> None]

-----------------------------------------------------------------------------
(* State machine *)

InitWith(dates, stores, ks) ==
    /\ clock \in dates
    /\ ticks = 0
    /\ store \in stores
    /\ retrieval_k \in ks
    /\ pc = "idle"
    /\ query = <<>>
    /\ today_318 = None
    /\ today_364 = None
    /\ now_372 = None
    /\ conditions = <<>>
    /\ location = None
    /\ calls = <<>>
    /\ retrieved = <<>>
    /\ retained = <<>>
    /\ nodes = <<>>
    /\ total_count = 0
    /\ display_count = 0
    /\ context = <<>>
    /\ llm_calls = 0
    /\ result = ""
    /\ filter_desc = <<>>
    /\ parsed = <<>>
    /\ chroma_client = None
    /\ vector_store = None
    /\ index = None
    /\ made = 0
    /\ th = [t \in Threads |-> IdleThread]

Init == InitWith(ChatStartDates, Stores, (0 - 1)..MaxK)

InitFilters == InitWith(FilterStartDates, {<<>>}, {MaxK})

\* midnight passes while a call is running
Tick ==
    /\ pc \notin {"idle", "done", "raised"}
    /\ ticks < MaxTicks
    /\ clock' = NextDay(clock)
    /\ ticks' = ticks + 1
    /\ UNCHANGED <<store, retrieval_k, pc, query, today_318, today_364, now_372,
                   conditions, location, calls, retrieved, retained, nodes,
                   total_count, display_count, context, llm_calls, result,
                   filter_desc, parsed>>
    /\ UNCHANGED storevars

\* a call arrives with its message
Begin(messages) ==
    /\ pc = "idle"
    /\ \E q \in messages : query' = q
    /\ pc' = "b318"
    /\ UNCHANGED <<clock, ticks, store, retrieval_k, today_318, today_364, now_372,
                   conditions, location, calls, retrieved, retained, nodes,
                   total_count, display_count, context, llm_calls, result,
                   filter_desc, parsed>>
    /\ UNCHANGED storevars

chat_begin == Begin(ChatQueries)

build_begin == Begin(FilterQueries)

\* build_chroma_filters, lines 311-361: reads the clock if the query is time-based
build_318 ==
    /\ pc = "b318"
    /\ today_318' = IF is_time_based_query(query) THEN Some(clock) ELSE None
    /\ conditions' = TimeConds(query, clock) \o StaticConds(query)
    /\ pc' = "b364"
    /\ UNCHANGED <<clock, ticks, store, retrieval_k, query, today_364, now_372,
                   location, calls, retrieved, retained, nodes,
                   total_count, display_count, context, llm_calls, result,
                   filter_desc, parsed>>
    /\ UNCHANGED storevars

\* lines 364-387: reads the clock; a closing-soon query goes on to line 372
build_364 ==
    /\ pc = "b364"
    /\ today_364' = Some(clock)
    /\ IF parse_registration_filter(query) = "closing_soon"
       THEN /\ pc' = "b372"
            /\ UNCHANGED conditions
       ELSE /\ pc' = "built"
            /\ conditions' = conditions
                                \o RegConds(parse_registration_filter(query), clock, clock)
                                \o DurationConds(query)
    /\ UNCHANGED <<clock, ticks, store, retrieval_k, query, today_318, now_372,
                   location, calls, retrieved, retained, nodes,
                   total_count, display_count, context, llm_calls, result,
                   filter_desc, parsed>>
    /\ UNCHANGED storevars

\* lines 372-387: reads the clock again for week_later
build_372 ==
    /\ pc = "b372"
    /\ now_372' = Some(clock)
    /\ conditions' = conditions
                        \o RegConds("closing_soon", today_364[1], WeekLater(clock))
                        \o DurationConds(query)
    /\ pc' = "built"
    /\ UNCHANGED <<clock, ticks, store, retrieval_k, query, today_318, today_364,
                   location, calls, retrieved, retained, nodes,
                   total_count, display_count, context, llm_calls, result,
                   filter_desc, parsed>>
    /\ UNCHANGED storevars

Call(kind, where, k) == [kind |-> kind, where |-> where, k |-> k]

\* a dispatch that looks at the predicate alone
UsesExactStore_PredicateOnly(conds, loc) == conds # <<>>

\* chat(), line 545
UsesExactStore(conds, loc) == conds # <<>> \/ loc # None

\* the one retrieval call chat() issues for the query (lines 545-552, 600-607)
RetrievalCall(conds, loc, k) ==
    IF UsesExactStore(conds, loc) THEN Call("exact", conds, None)
    ELSE Call("similarity", None, Some(k))

\* lines 563-565
Rank(ns, time_based) == IF time_based THEN sort_nodes_by_date(ns) ELSE ns

\* chat(), lines 540-572, exact-match path: retrieval, post-filter, the
\* empty result, ranking and the counts
chat_exact ==
    /\ pc = "built"
    /\ LET loc == parse_location_from_query(query)
           got == get_all_by_filter(conditions, store)
           kept == filter_nodes_by_location(got, loc)
           ranked == Rank(kept, is_time_based_query(query))
       IN  /\ UsesExactStore(conditions, loc)
           /\ location' = loc
           /\ calls' = Append(calls, RetrievalCall(conditions, loc, retrieval_k))
           /\ retrieved' = got
           /\ retained' = kept
           /\ IF kept = <<>>
              THEN /\ result' = "no_docs"
                   /\ pc' = "done"
                   /\ UNCHANGED <<nodes, total_count, display_count>>
              ELSE /\ nodes' = ranked
                   /\ display_count' = Min(retrieval_k, Len(ranked))
                   /\ total_count' = Len(ranked)
                   /\ pc' = IF Truncate(ranked, retrieval_k) = <<>> THEN "prompt" ELSE "format"
                   /\ UNCHANGED result
    /\ UNCHANGED <<clock, ticks, store, retrieval_k, query, today_318, today_364,
                   now_372, conditions, context, llm_calls,
                   filter_desc, parsed>>
    /\ UNCHANGED storevars

\* chat(), lines 598-612, similarity path: the query engine retrieves the
\* top k and answers; with no source node it answers without the generator.
\* The store refuses a limit below 1 (chat_store_fails).
chat_similarity ==
    /\ pc = "built"
    /\ retrieval_k >= 1
    /\ LET loc == parse_location_from_query(query)
       IN  /\ ~UsesExactStore(conditions, loc)
           /\ location' = loc
           /\ calls' = Append(calls, RetrievalCall(conditions, loc, retrieval_k))
    /\ IF store # <<>>
       THEN llm_calls' = llm_calls + 1 /\ result' = "engine_response"
       ELSE UNCHANGED llm_calls /\ result' = "engine_empty_response"
    /\ pc' = "done"
    /\ UNCHANGED <<clock, ticks, store, retrieval_k, query, today_318, today_364,
                   now_372, conditions, retrieved, retained, nodes,
                   total_count, display_count, context,
                   filter_desc, parsed>>
    /\ UNCHANGED storevars

\* a chat() that goes back to the retrieval after a failure
AfterFailure_Retry == "built"

\* where chat() is after a failed retrieval call: it has no handler around
\* the call, the exception leaves it
AfterFailure == "raised"

\* the store fails: chat() catches nothing, the exception leaves it
chat_store_fails ==
    /\ pc = "built"
    /\ location' = parse_location_from_query(query)
    /\ calls' = Append(calls, RetrievalCall(conditions, location', retrieval_k))
    /\ pc' = AfterFailure
    /\ UNCHANGED <<clock, ticks, store, retrieval_k, query, today_318, today_364,
                   now_372, conditions, retrieved, retained, nodes,
                   total_count, display_count, context, llm_calls, result,
                   filter_desc, parsed>>
    /\ UNCHANGED storevars

\* format_nodes_as_context: one pass of its loop, which reads the clock
\* (calculate_registration_status, line 477)
chat_format ==
    /\ pc = "format"
    /\ LET shown == Truncate(nodes, retrieval_k)
           i == Len(context) + 1
       IN  /\ context' = Append(context, Entry(i, shown[i], clock))
           /\ pc' = IF i = Len(shown) THEN "prompt" ELSE "format"
    /\ UNCHANGED <<clock, ticks, store, retrieval_k, query, today_318, today_364,
                   now_372, conditions, location, calls, retrieved, retained, nodes,
                   total_count, display_count, llm_calls, result,
                   filter_desc, parsed>>
    /\ UNCHANGED storevars

\* lines 574-596: the filter description, the prompt and the answer generator
chat_complete ==
    /\ pc = "prompt"
    /\ llm_calls' = llm_calls + 1
    /\ filter_desc' = build_filter_description(query)
    /\ result' = "llm_response"
    /\ pc' = "done"
    /\ UNCHANGED <<clock, ticks, store, retrieval_k, query, today_318, today_364,
                   now_372, conditions, location, calls, retrieved, retained, nodes,
                   total_count, display_count, context, parsed>>
    /\ UNCHANGED storevars

Next ==
    \/ Tick
    \/ chat_begin
    \/ build_318
    \/ build_364
    \/ build_372
    \/ chat_exact
    \/ chat_similarity
    \/ chat_store_fails
    \/ chat_format
    \/ chat_complete

Spec == Init /\ [][Next]_vars

NextFilters ==
    \/ Tick
    \/ build_begin
    \/ build_318
    \/ build_364
    \/ build_372

SpecFilters == InitFilters /\ [][NextFilters]_vars

\* calculate_registration_status on one record: reads the clock once (line 477)
InitStatus == InitWith(StatusTodays, {<<r>> : r \in StatusRecords}, {MaxK})

status_call ==
    /\ pc = "idle"
    /\ context' = <<Entry(1, store[1], clock)>>
    /\ pc' = "done"
    /\ UNCHANGED <<clock, ticks, store, retrieval_k, query, today_318, today_364,
                   now_372, conditions, location, calls, retrieved, retained, nodes,
                   total_count, display_count, llm_calls, result,
                   filter_desc, parsed>>
    /\ UNCHANGED storevars

NextStatus == status_call

SpecStatus == InitStatus /\ [][NextStatus]_vars

\* build_chroma_filters and build_filter_description on one message, as
\* chat() calls them (lines 540 and 575)
InitDescribe == InitWith(DescStartDates, {<<>>}, {MaxK})

describe_begin == Begin(DescQueries)

describe ==
    /\ pc = "built"
    /\ filter_desc' = build_filter_description(query)
    /\ pc' = "done"
    /\ UNCHANGED <<clock, ticks, store, retrieval_k, query, today_318, today_364,
                   now_372, conditions, location, calls, retrieved, retained, nodes,
                   total_count, display_count, context, llm_calls, result, parsed>>
    /\ UNCHANGED storevars

NextDescribe ==
    \/ Tick
    \/ describe_begin
    \/ build_318
    \/ build_364
    \/ build_372
    \/ describe

SpecDescribe == InitDescribe /\ [][NextDescribe]_vars

\* the parsers on one message
InitParse == InitWith(DescStartDates, {<<>>}, {MaxK})

parse_begin ==
    /\ pc = "idle"
    /\ \E q \in ParseQueries : query' = q
    /\ pc' = "parse"
    /\ UNCHANGED <<clock, ticks, store, retrieval_k, today_318, today_364, now_372,
                   conditions, location, calls, retrieved, retained, nodes,
                   total_count, display_count, context, llm_calls, result,
                   filter_desc, parsed>>
    /\ UNCHANGED storevars

parse_call ==
    /\ pc = "parse"
    /\ parsed' = Some([date |-> parse_date_from_query(query),
                       registration |-> parse_registration_filter(query)])
    /\ pc' = "done"
    /\ UNCHANGED <<clock, ticks, store, retrieval_k, query, today_318, today_364,
                   now_372, conditions, location, calls, retrieved, retained, nodes,
                   total_count, display_count, context, llm_calls, result,
                   filter_desc>>
    /\ UNCHANGED storevars

NextParse ==
    \/ parse_begin
    \/ parse_call

SpecParse == InitParse /\ [][NextParse]_vars

-----------------------------------------------------------------------------
(* The cached handles of vector_store.py, used by several threads.  Each    *)
(* action is one read or one write of a module variable by one thread; the  *)
(* functions take no lock.                                                  *)

InitStore == InitWith(DescStartDates, {<<>>}, {MaxK})

\* where a thread goes on once it holds the client, the vector store, the index
AfterClient(goal) == IF goal = "get_all_by_filter" THEN "get" ELSE "v36"
AfterStore(goal) == IF goal = "get_vector_store" THEN "idle" ELSE "i52"
AfterIndex(goal) == IF goal = "add_documents" THEN "insert" ELSE "idle"

\* the thread's record at a position; a thread that returned keeps nothing
At(r, next) == IF next = "idle" THEN IdleThread ELSE [r EXCEPT !.pc = next]

\* a thread enters one of the functions
store_call(t) ==
    /\ th[t].pc = "idle"
    /\ \E f \in {"get_all_by_filter", "get_vector_store", "get_index", "add_documents",
                  "clear_store"} :
            th' = [th EXCEPT ![t] = [IdleThread EXCEPT
                        !.goal = f,
                        !.pc = CASE f = "get_all_by_filter" -> "c21"
                                 [] f = "get_vector_store" -> "v32"
                                 [] f = "clear_store" -> "k110"
                                 [] OTHER -> "i46"]]
    /\ UNCHANGED <<chroma_client, vector_store, index, made>>
    /\ UNCHANGED chatvars

\* get_index, line 46: if _index is None
get_index_46(t) ==
    /\ th[t].pc = "i46"
    /\ th' = [th EXCEPT ![t] =
                IF index # None THEN At([th[t] EXCEPT !.ix = index], AfterIndex(th[t].goal))
                ELSE At(th[t], "v32")]
    /\ UNCHANGED <<chroma_client, vector_store, index, made>>
    /\ UNCHANGED chatvars

\* get_vector_store, line 32: if _vector_store is None
get_vector_store_32(t) ==
    /\ th[t].pc = "v32"
    /\ th' = [th EXCEPT ![t] =
                IF vector_store # None THEN At([th[t] EXCEPT !.vs = vector_store], AfterStore(th[t].goal))
                ELSE At(th[t], "c21")]
    /\ UNCHANGED <<chroma_client, vector_store, index, made>>
    /\ UNCHANGED chatvars

\* get_chroma_client, line 21: if _chroma_client is None
get_chroma_client_21(t) ==
    /\ th[t].pc = "c21"
    /\ th' = [th EXCEPT ![t] =
                IF chroma_client # None
                THEN At([th[t] EXCEPT !.client = chroma_client], AfterClient(th[t].goal))
                ELSE At(th[t], "c23")]
    /\ UNCHANGED <<chroma_client, vector_store, index, made>>
    /\ UNCHANGED chatvars

\* get_chroma_client, line 23: a new client is created and cached
get_chroma_client_23(t) ==
    /\ th[t].pc = "c23"
    /\ made < MaxClients
    /\ made' = made + 1
    /\ chroma_client' = Some(made + 1)
    /\ th' = [th EXCEPT ![t] = At([th[t] EXCEPT !.client = Some(made + 1)], AfterClient(th[t].goal))]
    /\ UNCHANGED <<vector_store, index>>
    /\ UNCHANGED chatvars

\* get_vector_store, lines 35-36: the vector store over the client's collection
get_vector_store_36(t) ==
    /\ th[t].pc = "v36"
    /\ vector_store' = th[t].client
    /\ th' = [th EXCEPT ![t] = At([th[t] EXCEPT !.vs = th[t].client], AfterStore(th[t].goal))]
    /\ UNCHANGED <<chroma_client, index, made>>
    /\ UNCHANGED chatvars

\* get_index, lines 49-56: the index over the vector store
get_index_52(t) ==
    /\ th[t].pc = "i52"
    /\ index' = th[t].vs
    /\ th' = [th EXCEPT ![t] = At([th[t] EXCEPT !.ix = th[t].vs], AfterIndex(th[t].goal))]
    /\ UNCHANGED <<chroma_client, vector_store, made>>
    /\ UNCHANGED chatvars

\* add_documents, line 68: index.insert_nodes writes to the index's collection
add_documents_68(t) ==
    /\ th[t].pc = "insert"
    /\ th' = [th EXCEPT ![t] = IdleThread]
    /\ UNCHANGED <<chroma_client, vector_store, index, made>>
    /\ UNCHANGED chatvars

\* get_all_by_filter, lines 75-88: collection.get reads the client's collection
get_all_by_filter_79(t) ==
    /\ th[t].pc = "get"
    /\ th' = [th EXCEPT ![t] = IdleThread]
    /\ UNCHANGED <<chroma_client, vector_store, index, made>>
    /\ UNCHANGED chatvars

\* clear_store, lines 110-115: the client is reset and dropped
clear_store_110(t) ==
    /\ th[t].pc = "k110"
    /\ chroma_client' = None
    /\ th' = [th EXCEPT ![t] = At(th[t], "k117")]
    /\ UNCHANGED <<vector_store, index, made>>
    /\ UNCHANGED chatvars

\* clear_store, line 117
clear_store_117(t) ==
    /\ th[t].pc = "k117"
    /\ vector_store' = None
    /\ th' = [th EXCEPT ![t] = At(th[t], "k118")]
    /\ UNCHANGED <<chroma_client, index, made>>
    /\ UNCHANGED chatvars

\* clear_store, line 118
clear_store_118(t) ==
    /\ th[t].pc = "k118"
    /\ index' = None
    /\ th' = [th EXCEPT ![t] = IdleThread]
    /\ UNCHANGED <<chroma_client, vector_store, made>>
    /\ UNCHANGED chatvars

NextStore ==
    \E t \in Threads :
        \/ store_call(t)
        \/ get_index_46(t)
        \/ get_vector_store_32(t)
        \/ get_chroma_client_21(t)
        \/ get_chroma_client_23(t)
        \/ get_vector_store_36(t)
        \/ get_index_52(t)
        \/ add_documents_68(t)
        \/ get_all_by_filter_79(t)
        \/ clear_store_110(t)
        \/ clear_store_117(t)
        \/ clear_store_118(t)

SpecStore == InitStore /\ [][NextStore]_vars

-----------------------------------------------------------------------------
(* Properties *)

\* the retrieval call has been issued
Dispatched == pc \in {"format", "prompt", "done", "raised"}

\* the exact-match path went on to the answer generator
ExactAnswering ==
    /\ pc \in {"format", "prompt", "done"}
    /\ calls # <<>>
    /\ calls[1].kind = "exact"
    /\ result # "no_docs"

HasCond(conds, key, op, val) ==
    \E i \in 1..Len(conds) : conds[i].key = key /\ conds[i].op = op /\ conds[i].val = val

HasKey(conds, key) == \E i \in 1..Len(conds) : conds[i].key = key

\* C1: chat() issues its retrieval call to the exact-match store if and only
\* if the predicate builder produced a condition or a location keyword was
\* found, and to the similarity store with the limit RETRIEVAL_K otherwise;
\* with a location keyword alone the exact-match store is asked with no
\* predicate and returns every record.
C1_Dispatch ==
    Dispatched =>
        /\ Len(calls) = 1
        /\ LET c == calls[1]
               exact == conditions # <<>> \/ parse_location_from_query(query) # None
           IN  /\ c.kind \in {"exact", "similarity"}
               /\ (c.kind = "exact") <=> exact
               /\ c.kind = "similarity" => c.k = Some(retrieval_k) /\ c.where = None
               /\ c.kind = "exact" => c.k = None /\ c.where = conditions
               /\ (c.kind = "exact" /\ conditions = <<>> /\ pc # "raised") => retrieved = store

\* a query with a location keyword and no condition was answered from the exact-match store
C1_Witness ==
    /\ pc = "done"
    /\ result = "llm_response"
    /\ conditions = <<>>
    /\ location # None
    /\ calls[1].kind = "exact"
    /\ calls[1].where = None

\* C2: on the exact-match path the total_count given to the answer generator
\* is the number of records of the store that satisfy the predicate and, when
\* a location keyword was extracted, the substring test, whatever K is.
C2_TotalCount ==
    ExactAnswering =>
        total_count = Cardinality({i \in 1..Len(store) :
                            /\ Matches(store[i], conditions)
                            /\ location # None => IsSubstring(location, LocationOf(store[i]))})

\* more records match a predicate and a location than K allows in the bundle
C2_Witness ==
    /\ ExactAnswering
    /\ pc = "done"
    /\ conditions # <<>>
    /\ location # None
    /\ retrieval_k = 1
    /\ total_count = 2

\* C3: the bundle holds exactly the first K records of the ranked list, in
\* ranked order and numbered 1..min(K, n) (all n when n <= K), and
\* total_count is n, for every configured K.
C3_Bundle ==
    (ExactAnswering /\ pc \in {"prompt", "done"}) =>
        LET n == Len(nodes)
            shown == Max(Min(retrieval_k, n), 0)
        IN  /\ total_count = n
            /\ Len(context) = shown
            /\ \A i \in 1..Len(context) : context[i].n = i /\ context[i].id = nodes[i].id

\* the zero-record case of the path the call took: nothing retained on the
\* exact-match path, nothing to retrieve on the similarity path
ZeroRecords ==
    /\ calls # <<>>
    /\ IF calls[1].kind = "exact" THEN retained = <<>> ELSE store = <<>>

\* C4: whenever zero records remain after retrieval and all filters, chat()
\* returns the "no matching documents" value, raises nothing and does not
\* invoke the answer generator.
C4_EmptyResult ==
    (pc = "done" /\ ZeroRecords) => (result = "no_docs" /\ llm_calls = 0)

\* the values of today the running query has compared a date with: the one
\* of the time-relative lower bound and past-period test, the one of the
\* registration conditions, the one week_later is counted from, and the one
\* of each live registration status computed for the bundle
TodayUsed ==
    (IF today_318 # None THEN {today_318[1]} ELSE {})
    \cup (IF today_364 # None /\ parse_registration_filter(query) # "" THEN {today_364[1]} ELSE {})
    \cup (IF now_372 # None THEN {now_372[1]} ELSE {})
    \cup {context[i].today : i \in {j \in 1..Len(context) :
                                        /\ Truthy(GetInt(nodes[j], "reg_start_int"))
                                        /\ Truthy(GetInt(nodes[j], "reg_end_int"))}}

\* C5: within one query every date comparison uses the same value of today,
\* also when midnight passes while the query is processed.
C5_OneToday == Cardinality(TodayUsed) <= 1

\* build_chroma_filters has passed lines 316-361
PastLine361 == pc \notin {"idle", "b318"}

HasLowerBound == today_318 # None /\ HasCond(conditions, "start_date_int", "$gte", today_318[1])

\* C6 as first stated: a time-relative query gets start_date_int >= today_int
\* unless it names a year together with a month M (or a range whose last month
\* is M) with YYYYMM28 < today_int; other queries never get the condition.
C6_LowerBound ==
    PastLine361 =>
        LET d == parse_date_from_query(query)
            named == d.year # None /\ (d.month # None \/ d.month_range # None)
            M == IF d.month # None THEN d.month[1] ELSE SeqMax(d.month_range)
        IN  IF is_time_based_query(query)
            THEN HasLowerBound <=> ~(named /\ d.year[1] * 10000 + M * 100 + 28 < today_318[1])
            ELSE ~HasKey(conditions, "start_date_int")

\* C6, amended: a time-relative query gets start_date_int >= today_int unless
\* its year is not 0 and either (a) its single month is not 0 and
\* YYYYMM28 < today_int, or (b) it has a month range with last month M and
\* YYYYMM28 < today_int, or (c) it has no range and no month other than 0 and
\* its year is less than today's year.  A query without a year (or with year
\* 0) always gets the condition; other queries never get it.
C6_LowerBoundAmended ==
    PastLine361 =>
        LET d == parse_date_from_query(query)
            T == today_318[1]
            year == IF d.year # None THEN d.year[1] ELSE 0
            month == IF d.month # None THEN d.month[1] ELSE 0
            suppressed ==
                /\ year # 0
                /\ \/ month # 0 /\ year * 10000 + month * 100 + 28 < T
                   \/ month = 0 /\ d.month_range # None
                                /\ year * 10000 + SeqMax(d.month_range) * 100 + 28 < T
                   \/ month = 0 /\ d.month_range = None /\ year < T \div 10000
        IN  IF is_time_based_query(query)
            THEN /\ HasLowerBound <=> ~suppressed
                 /\ year = 0 => HasLowerBound
                 /\ ~HasLowerBound => ~HasKey(conditions, "start_date_int")
            ELSE ~HasKey(conditions, "start_date_int")

\* a time-relative query that names only a year, a past one, got no lower bound
C6_Witness ==
    /\ pc = "built"
    /\ is_time_based_query(query)
    /\ parse_date_from_query(query).year = Some(2025)
    /\ parse_date_from_query(query).month = None
    /\ parse_date_from_query(query).month_range = None
    /\ today_318 = Some(20260105)
    /\ ~HasKey(conditions, "start_date_int")

\* the registration conditions of the predicate, as a set
RegCondSet ==
    {conditions[i] : i \in {j \in 1..Len(conditions) :
                                conditions[j].key \in {"reg_start_int", "reg_end_int"}}}

\* a record that carries every key but the registration dates
NoRegistration == [id |-> 0, category |-> "workshop", location |-> <<>>, year |-> 2025,
                   month |-> 3, start_date_int |-> 20250328, is_weekend |-> FALSE,
                   duration_days |-> 1, answer_template |-> "a"]

\* C7: with T today's integer date and W the date 7 calendar days after
\* today, the registration conditions are exactly: available ->
\* reg_start_int <= T, reg_end_int >= T; closing-soon -> reg_end_int >= T,
\* reg_end_int <= W; upcoming -> reg_start_int > T; exclude-closed ->
\* reg_end_int >= T; none otherwise.  A record without registration dates
\* satisfies none of them.
C7_RegConds ==
    pc = "built" =>
        LET T == today_364[1]
            W == AddDays(T, 7)
            reg_status == parse_registration_filter(query)
        IN  /\ RegCondSet =
                   CASE reg_status = "available" ->
                            {Cond("reg_start_int", "$lte", T), Cond("reg_end_int", "$gte", T)}
                     [] reg_status = "closing_soon" ->
                            {Cond("reg_end_int", "$gte", T), Cond("reg_end_int", "$lte", W)}
                     [] reg_status = "upcoming" -> {Cond("reg_start_int", "$gt", T)}
                     [] reg_status = "exclude_closed" -> {Cond("reg_end_int", "$gte", T)}
                     [] OTHER -> {}
            /\ \A c \in RegCondSet : ~Holds(NoRegistration, c)

\* the exact-match path has retrieved and post-filtered
PostFiltered ==
    /\ pc \in {"format", "prompt", "done"}
    /\ calls # <<>>
    /\ calls[1].kind = "exact"

\* position of the record with this id in a list (0 when it is not there)
PosOf(ns, id) ==
    IF \E i \in 1..Len(ns) : ns[i].id = id THEN CHOOSE i \in 1..Len(ns) : ns[i].id = id ELSE 0

\* C8: with a location keyword the post-filter returns exactly the
\* sub-sequence of the retrieved records whose location contains the keyword
\* as a case-sensitive substring, in the same relative order and unaltered
\* (a record with no location is dropped); without one the list is unchanged.
C8_PostFilter ==
    PostFiltered =>
        IF location = None THEN retained = retrieved
        ELSE LET keep == {i \in 1..Len(retrieved) :
                            \E k \in 0..(Len(LocationOf(retrieved[i])) - Len(location)) :
                                \A c \in 1..Len(location) :
                                    LocationOf(retrieved[i])[k + c] = location[c]}
             IN  /\ Len(retained) = Cardinality(keep)
                 /\ \A j \in 1..Len(retained) :
                        \E i \in keep :
                            /\ Cardinality({h \in keep : h < i}) = j - 1
                            /\ retained[j].id = retrieved[i].id
                            /\ retained[j] = retrieved[i]

\* the filter dropped a record with no location and one that differs from the
\* keyword in case only, and kept a record that holds the keyword
C8_Witness ==
    /\ PostFiltered
    /\ location = KwYangjae
    /\ Len(retrieved) = 2
    /\ Len(retained) = 1
    /\ \E i \in 1..Len(retrieved) : retrieved[i].id = 2
    /\ retained[1].id = 4

\* C9: for a time-relative query the ranked list is a permutation of the
\* retained records, ascending by start_date_int, records of equal date in
\* retrieval order and records without a date behind every dated record;
\* for any other query it is the retained list unchanged.
C9_Ranked ==
    ExactAnswering =>
        IF is_time_based_query(query)
        THEN /\ Len(nodes) = Len(retained)
             /\ \A i \in 1..Len(retained) : \E j \in 1..Len(nodes) : nodes[j] = retained[i]
             /\ \A i, j \in 1..Len(nodes) :
                    i < j =>
                        /\ "start_date_int" \in DOMAIN nodes[j] => "start_date_int" \in DOMAIN nodes[i]
                        /\ ("start_date_int" \in DOMAIN nodes[i] /\ "start_date_int" \in DOMAIN nodes[j])
                                => nodes[i].start_date_int <= nodes[j].start_date_int
                        /\ ("start_date_int" \in DOMAIN nodes[i]) = ("start_date_int" \in DOMAIN nodes[j])
                                => (\/ get_date_int(nodes[i]) < get_date_int(nodes[j])
                                    \/ PosOf(retained, nodes[i].id) < PosOf(retained, nodes[j].id))
        ELSE nodes = retained

\* a record without a date was retrieved first and ranked behind a dated one
C9_Witness ==
    /\ ExactAnswering
    /\ is_time_based_query(query)
    /\ Len(nodes) = 2
    /\ "start_date_int" \notin DOMAIN retained[1]
    /\ "start_date_int" \in DOMAIN retained[2]
    /\ nodes[1] = retained[2]
    /\ nodes[2] = retained[1]

\* the post-filter and ranker, as chat() applies them (lines 555-566)
PostFilterAndRank(ns, loc, time_based) == Rank(filter_nodes_by_location(ns, loc), time_based)

\* C10: applying the post-filter and ranker to its own result, with the same
\* keyword and flag, yields that result again: for every collection, keyword
\* and flag, and for the ranked list of the running query.
C10_Idempotent ==
    /\ \A loc \in {None, KwCoex, KwYangjae} :
        \A time_based \in BOOLEAN :
            LET once == PostFilterAndRank(store, loc, time_based)
            IN  PostFilterAndRank(once, loc, time_based) = once
    /\ ExactAnswering =>
            PostFilterAndRank(nodes, location, is_time_based_query(query)) = nodes

\* two records of equal date went through the location filter and the sort
C10_Witness ==
    /\ ExactAnswering
    /\ location # None
    /\ is_time_based_query(query)
    /\ Len(nodes) = 2
    /\ nodes[1].start_date_int = nodes[2].start_date_int
    /\ nodes[1].id > nodes[2].id

\* calculate_registration_status has returned for the one record of the store
StatusComputed == pc = "done" /\ calls = <<>> /\ Len(context) = 1

\* C11 as first stated: the status is exactly one of four classes: unknown if
\* and only if a registration date is absent, not-yet-open iff
\* today < reg_start, open iff reg_start <= today <= reg_end, closed otherwise.
C11_StatusTotal ==
    StatusComputed =>
        LET md == store[1]
            cls == context[1].status.cls
            absent == "reg_start_int" \notin DOMAIN md \/ "reg_end_int" \notin DOMAIN md
        IN  /\ cls \in {"", "not_open", "open", "closed"}
            /\ ((cls = "") <=> absent)
            /\ ~absent => ((cls = "not_open") <=> (clock < md.reg_start_int))
            /\ ~absent => ((cls = "open") <=> (md.reg_start_int <= clock /\ clock <= md.reg_end_int))

\* C11, amended: the status is exactly one of four classes: unknown if and
\* only if a registration date is absent or is 0; otherwise not-yet-open iff
\* today < reg_start, open iff reg_start <= today <= reg_end, closed otherwise
\* (so closed whenever reg_start > reg_end and today >= reg_start).
C11_StatusTotalAmended ==
    StatusComputed =>
        LET md == store[1]
            cls == context[1].status.cls
            has(key) == key \in DOMAIN md /\ md[key] # 0
            known == has("reg_start_int") /\ has("reg_end_int")
        IN  /\ cls \in {"", "not_open", "open", "closed"}
            /\ ((cls = "") <=> ~known)
            /\ known => ((cls = "not_open") <=> (clock < md.reg_start_int))
            /\ known => ((cls = "open") <=> (md.reg_start_int <= clock /\ clock <= md.reg_end_int))
            /\ known => ((cls = "closed") <=> (clock >= md.reg_start_int /\ clock > md.reg_end_int))

\* registration opens and closes today: the status is open
C11_Witness ==
    /\ StatusComputed
    /\ "reg_start_int" \in DOMAIN store[1]
    /\ "reg_end_int" \in DOMAIN store[1]
    /\ store[1].reg_start_int = clock
    /\ store[1].reg_end_int = clock
    /\ context[1].status.cls = "open"

\* number of calendar days from a to b (0 when b is not after a)
RECURSIVE DaysUntil(_, _)
DaysUntil(a, b) == IF a >= b THEN 0 ELSE 1 + DaysUntil(NextDay(a), b)

\* C12: for a record whose registration is open today the status carries
\* "closing in N days" exactly when reg_end is at most 7 calendar days after
\* today, with N that number of days, also across a month or year end.
C12_ClosingIn ==
    (StatusComputed /\ context[1].status.cls = "open") =>
        LET diff == DaysUntil(clock, store[1].reg_end_int)
        IN  context[1].status.days = IF diff <= 7 THEN Some(diff) ELSE None

HasDesc(kind) == \E i \in 1..Len(filter_desc) : filter_desc[i].kind = kind

\* the predicate and the description of the message are both built
Described == pc = "done" /\ calls = <<>> /\ today_364 # None

\* C13: the description has an entry for every filter that contributed a
\* condition to the predicate or to the post-filter: year, month or month
\* range, weekend/weekday, category, exclusion, each registration intent,
\* duration, location and the time-relative lower bound.
C13_Described ==
    Described =>
        /\ HasKey(conditions, "year") => HasDesc("year")
        /\ (\E i \in 1..Len(conditions) : conditions[i].key = "month" /\ conditions[i].op = "$eq")
                => HasDesc("month")
        /\ (\E i \in 1..Len(conditions) : conditions[i].key = "month" /\ conditions[i].op = "$in")
                => HasDesc("month_range")
        /\ HasKey(conditions, "is_weekend") => HasDesc("is_weekend")
        /\ (\E i \in 1..Len(conditions) : conditions[i].key = "category" /\ conditions[i].op = "$eq")
                => HasDesc("category")
        /\ (\E i \in 1..Len(conditions) : conditions[i].key = "category" /\ conditions[i].op = "$ne")
                => HasDesc("exclusion")
        /\ RegCondSet # {} => HasDesc("registration")
        /\ HasKey(conditions, "duration_days") => HasDesc("duration")
        /\ parse_location_from_query(query) # None => HasDesc("location")
        /\ HasKey(conditions, "start_date_int") => HasDesc("time_based")

\* the parsers have returned
Parsed == pc = "done" /\ parsed # None

Has(q, t) == \E i \in 1..Len(q) : q[i] = t

\* the fixed list of the first half-year or quarter keyword the text holds, in
\* the order first half, second half, Q1, Q2, Q3, Q4
KeywordList(q) ==
    CASE Has(q, "H1") -> <<1, 2, 3, 4, 5, 6>>
      [] ~Has(q, "H1") /\ Has(q, "H2") -> <<7, 8, 9, 10, 11, 12>>
      [] ~Has(q, "H1") /\ ~Has(q, "H2") /\ Has(q, "Q1") -> <<1, 2, 3>>
      [] ~Has(q, "H1") /\ ~Has(q, "H2") /\ ~Has(q, "Q1") /\ Has(q, "Q2") -> <<4, 5, 6>>
      [] OTHER -> IF Has(q, "Q3") THEN <<7, 8, 9>> ELSE <<10, 11, 12>>

HasKeyword(q) == \E t \in {"H1", "H2", "Q1", "Q2", "Q3", "Q4"} : Has(q, t)

\* C14: a query with a half-year or quarter keyword gets the fixed month list
\* of that keyword as month_range and no single month, whatever month tokens
\* or explicit ranges it also contains.
C14_PeriodKeyword ==
    (Parsed /\ HasKeyword(query)) =>
        /\ parsed[1].date.month_range = KeywordList(query)
        /\ parsed[1].date.month = None

\* the positions where a range phrase "M월~N월" or "M월부터 N월" begins
RangePhrases(q) ==
    {i \in 1..(Len(q) - 2) :
        q[i] \in MonthTokens /\ q[i + 1] \in {"TILDE", "FROM"} /\ q[i + 2] \in MonthTokens}

\* C15: a range phrase with 1 <= M <= N <= 12 yields exactly [M..N]; one with
\* M > N or a month outside 1..12 yields no range from the phrase; no other
\* list is ever returned.
C15_ExplicitRange ==
    (Parsed /\ Cardinality(RangePhrases(query)) = 1) =>
        LET i == CHOOSE j \in RangePhrases(query) : TRUE
            M == MonthVal(query[i])
            N == MonthVal(query[i + 2])
            range == parsed[1].date.month_range
        IN  IF 1 <= M /\ M <= N /\ N <= 12
            THEN /\ range # None
                 /\ Len(range) = N - M + 1
                 /\ \A k \in 1..Len(range) : range[k] = M + k - 1
            ELSE range = IF HasKeyword(query) THEN KeywordList(query) ELSE None

\* a token of the pair (A, B) appears with A before B
Before(q, A, B) == \E i, j \in 1..Len(q) : i < j /\ q[i] \in A /\ q[j] \in B

\* C16: parse_registration_filter returns the first of available,
\* closing-soon, upcoming, exclude-closed whose sub-pattern matches, no intent
\* when none matches, and an intent only for a query that holds the
\* registration token.
C16_RegistrationIntent ==
    Parsed =>
        LET q == query
            r == parsed[1].registration
            available == Before(q, {"REG"}, {"POSSIBLE"})
            closing == \/ Before(q, {"REG"}, {"DEADLINE", "IMMINENT", "CLOSING"})
                       \/ Before(q, {"DEADLINE", "CLOSING"}, {"IMMINENT", "CLOSING"})
                       \/ Has(q, "CLOSING")
            upcoming == Before(q, {"REG"}, {"BEFORE"})
            exclude == Before(q, {"DEADLINE", "CLOSING"}, {"EXCEPT"})
        IN  /\ r = IF available THEN "available"
                   ELSE IF closing THEN "closing_soon"
                   ELSE IF upcoming THEN "upcoming"
                   ELSE IF exclude THEN "exclude_closed"
                   ELSE ""
            /\ r # "" => Has(q, "REG")

\* C17: every execution of chat() issues exactly one retrieval call; when
\* the call fails the exception leaves chat() with no second call, no return
\* value and no call of the answer generator.
C17_SingleCall ==
    /\ Len(calls) <= 1
    /\ Dispatched => Len(calls) = 1
    /\ llm_calls <= 1
    /\ pc = "raised" => /\ llm_calls = 0
                        /\ result = ""
                        /\ context = <<>>
                        /\ filter_desc = <<>>

\* the exact-match store failed on the one call of a query with a predicate
C17_Witness ==
    /\ pc = "raised"
    /\ Len(calls) = 1
    /\ calls[1].kind = "exact"
    /\ calls[1].where # None

\* build_chroma_filters has returned
Built == pc \in {"built", "done"} /\ today_364 # None

\* C18: the predicate is None if and only if none of year, month, month
\* range, weekend flag, category, exclusion, registration intent, duration
\* intent or time-relative lower bound yields a condition; no condition is
\* about the location, so a query whose only intent is a location has None.
C18_NonePredicate ==
    Built =>
        LET d == parse_date_from_query(query)
            yields == \/ d.year # None /\ d.year[1] # 0
                      \/ d.month # None /\ d.month[1] # 0
                      \/ d.month_range # None
                      \/ parse_weekend_filter(query) # None
                      \/ parse_category_from_query(query) # ""
                      \/ parse_exclusion_filter(query) # ""
                      \/ parse_registration_filter(query) # ""
                      \/ parse_duration_filter(query) # ""
                      \/ is_time_based_query(query)
        IN  /\ (conditions = None) <=> ~yields
            /\ ~HasKey(conditions, "location")
            /\ \A i \in 1..Len(conditions) :
                    conditions[i].key \in {"year", "month", "is_weekend", "category",
                                           "reg_start_int", "reg_end_int", "duration_days",
                                           "start_date_int"}

\* a query whose only intent is a location got no predicate
C18_Witness ==
    /\ Built
    /\ query = <<"EVENT", "COEX">>
    /\ parse_location_from_query(query) = KwCoex
    /\ conditions = None

\* C19: the predicate never holds both "category equals C" and "category
\* not-equals C" for one category C.
C19_NoContradiction ==
    \A i, j \in 1..Len(conditions) :
        ~(/\ conditions[i].key = "category" /\ conditions[i].op = "$eq"
          /\ conditions[j].key = "category" /\ conditions[j].op = "$ne"
          /\ conditions[i].val = conditions[j].val)

\* C20: a time-relative query always has a non-empty predicate, its one
\* retrieval call goes to the exact-match store and the list given to the
\* assembler is in ascending date order.
C20_TimeBasedExact ==
    is_time_based_query(query) =>
        /\ PastLine361 => conditions # None
        /\ Dispatched => calls[1].kind = "exact"
        /\ ExactAnswering =>
                \A i, j \in 1..Len(nodes) :
                    i < j => get_date_int(nodes[i]) <= get_date_int(nodes[j])

\* a time-relative query of a past year, whose lower bound is suppressed, was
\* answered from the exact-match store with its two records in date order
C20_Witness ==
    /\ is_time_based_query(query)
    /\ pc = "done"
    /\ result = "llm_response"
    /\ ~HasKey(conditions, "start_date_int")
    /\ calls[1].kind = "exact"
    /\ Len(nodes) = 2
    /\ Len(retained) = 2
    /\ nodes[1] = retained[2]

\* C21: on the exact-match path the display count stated in the prompt is the
\* number of entries of the bundle and lies in 1..total_count, for every
\* integer RETRIEVAL_K.
C21_DisplayCount ==
    (ExactAnswering /\ pc \in {"prompt", "done"}) =>
        /\ display_count = Len(context)
        /\ 1 <= display_count
        /\ display_count <= total_count

\* the lower bound of the running query, if the builder added one
LowerBoundAdded ==
    \E i \in 1..Len(conditions) :
        conditions[i].key = "start_date_int" /\ conditions[i].op = "$gte"

\* C22: the description reports no filter that was not applied: its
\* "from today onward" entry appears only with the condition
\* start_date_int >= today_int in the predicate, and every other entry has
\* its condition in the predicate or is the location of the post-filter.
C22_OnlyApplied ==
    Described =>
        \A i \in 1..Len(filter_desc) :
            LET e == filter_desc[i]
            IN  CASE e.kind = "time_based" -> LowerBoundAdded
                  [] e.kind = "year" -> HasCond(conditions, "year", "$eq", e.val)
                  [] e.kind = "month" -> HasCond(conditions, "month", "$eq", e.val)
                  [] e.kind = "month_range" ->
                        \E j \in 1..Len(conditions) :
                            /\ conditions[j].key = "month" /\ conditions[j].op = "$in"
                            /\ conditions[j].val[1] = e.val[1]
                            /\ conditions[j].val[Len(conditions[j].val)] = e.val[2]
                  [] e.kind = "is_weekend" -> HasCond(conditions, "is_weekend", "$eq", e.val)
                  [] e.kind = "category" -> HasCond(conditions, "category", "$eq", e.val)
                  [] e.kind = "exclusion" -> HasCond(conditions, "category", "$ne", e.val)
                  [] e.kind = "registration" -> RegCondSet # {}
                  [] e.kind = "duration" -> HasKey(conditions, "duration_days")
                  [] e.kind = "location" -> parse_location_from_query(query) = e.val

\* C23: parse_date_from_query never returns both a single month and a month
\* range, a month range is a non-empty contiguous ascending list within
\* 1..12, and every condition "month equals m" of the predicate has
\* 1 <= m <= 12.
C23_MonthBounds ==
    /\ LET d == IF parsed # None THEN parsed[1].date ELSE parse_date_from_query(query)
       IN  /\ ~(d.month # None /\ d.month_range # None)
           /\ d.month_range # None =>
                /\ Len(d.month_range) >= 1
                /\ 1 <= d.month_range[1]
                /\ d.month_range[Len(d.month_range)] <= 12
                /\ \A k \in 1..(Len(d.month_range) - 1) :
                        d.month_range[k + 1] = d.month_range[k] + 1
    /\ \A i \in 1..Len(conditions) :
            (conditions[i].key = "month" /\ conditions[i].op = "$eq")
                => (1 <= conditions[i].val /\ conditions[i].val <= 12)

\* no thread is inside a function of vector_store.py
Quiescent == \A t \in Threads : th[t].pc = "idle"

\* C24: under any interleaving the cached handles stay consistent: at most
\* one client is referred to by the cache, a cached vector store or index was
\* built from the cached client, and a get_all_by_filter reads the collection
\* an add_documents writes to.
C24_HandlesConsistent ==
    /\ Quiescent =>
            /\ Cardinality(({chroma_client, vector_store, index}) \ {None}) <= 1
            /\ vector_store # None => vector_store = chroma_client
            /\ index # None => index = vector_store
    /\ \A t, u \in Threads :
            (th[t].pc = "get" /\ th[u].pc = "insert") => th[t].client = th[u].ix

====
